---- MODULE Spec2Model ----
(***************************************************************************)
(* The quiz page of the NEET practice application                          *)
(* (client/src/pages/quiz.tsx): the React state of the Quiz component, the *)
(* countdown timer it drives, the auto-advance callbacks it schedules with *)
(* setTimeout, and the handlers behind its buttons.                        *)
(*                                                                         *)
(* A JavaScript string is a sequence of one-character strings, so that     *)
(* trim() and toUpperCase() are computed, not assumed.  A JavaScript       *)
(* object with integer keys is a sequence of [key, value] entries in       *)
(* ascending key order, which is the order the language enumerates them.   *)
(*                                                                         *)
(* Every handler runs to completion on the single event-loop thread, so    *)
(* each is one action.  A handler reads the state of the render it was     *)
(* created in: a click handler is created by the render on screen (the     *)
(* current state), a setTimeout callback keeps the values of the render    *)
(* in which it was scheduled.                                              *)
(***************************************************************************)
EXTENDS Integers, Sequences, FiniteSets, TLC

\* ------------------------------------------------------------- bounds

\* Largest question set a session is loaded with.
MaxQuestions == 2
\* Most auto-advance callbacks scheduled and not yet run.
MaxPending == 2
\* Seconds followed one by one next to each end of the time budget.
MaxTicks == 1
\* Most records in a stored question file.
MaxRecords == 3
\* Chapters of the chapters page, and as many chapters of the book.
MaxChapters == 1
\* Most questions in an uploaded file or an imported batch.
MaxBatch == 2
\* Most question files kept by one backend.
MaxFiles == 2
\* Most question rows of one chapter in one backend.
MaxRows == 2
\* Largest totalQuestions an import may leave on a chapter.
MaxTotal == 4
\* Most quiz results saved for the chapters of the chapters page.
MaxAttempts == 2
\* Most createChapterMutation calls in flight at once.
MaxMutations == 2
\* Most chapters created in the book.
MaxCreated == 3
\* Number of values generateChapterId draws from.
MaxIds == 2

\* Records of a file chosen in an upload dialog.
MaxImport == 2

\* Uploads the dialogs send in one run.
MaxUploads == 1

\* ------------------------------------------------- program constants

\* useTimer({ initialTime: 30 * 60, ... })
InitialTime == 30 * 60

\* NEET_SCORING.CORRECT and NEET_SCORING.INCORRECT of lib/quiz-scoring.
NEET_SCORING_CORRECT == 4
NEET_SCORING_INCORRECT == -1

\* The keys of the four option buttons.
OptionKeys == << <<"A">>, <<"B">>, <<"C">>, <<"D">> >>

\* The option buttons the model clicks.
ClickedKeys == { OptionKeys[1], OptionKeys[2] }

\* correctAnswer strings of loaded questions: validation only asks that the
\* field is truthy, so case and surrounding blanks are as the file has them.
\* The loaded sets alternate a plain letter and one that needs trim() and
\* toUpperCase() to compare equal to an option key.
CorrectAnswerOf(i) == IF i % 2 = 1 THEN <<"A">> ELSE <<" ", "b">>

\* The value of a missing property.
undefined == <<"undefined">>

\* No toast was raised.
NoToast == ""

\* -------------------------------------------------------------- state

VARIABLES
    questions,             \* useState<Question[]>: sequence of [id, correctAnswer]
    currentQuestionIndex,  \* useState(0)
    selectedAnswers,       \* useState<{[key: number]: string}>({})
    showResults,           \* useState(false)
    quizStarted,           \* useState(false)
    timerPaused,           \* useState(false)
    quizType,              \* useState<'normal' | 'wrongOnly'>('normal')
    timeLeft,              \* useTimer: timeRemaining
    isRunning,             \* useTimer: isRunning
    pending,               \* setTimeout callbacks scheduled and not yet run, oldest first
    mounted,               \* the Quiz component is on the page
    saveCalls,             \* saveQuizResult calls made with the current session's state
    lastSel,               \* per question index: letter of the latest handleAnswerSelect
    saving,                \* a saveQuizResult call of this session is awaited
    toast,                 \* title of the toast raised by the latest step, or NoToast
    fileContent,           \* json_files.file_content of the chapter a quiz is started on
    current_quiz_data,     \* sessionStorage: << >> when absent, else << the stored array >>
    sql,                   \* a connection string is configured (VITE_DATABASE_URL)
    db_books,              \* remote table books: the ids of its rows
    db_chapters,           \* remote table chapters: id -> row
    db_json_files,         \* remote table json_files: its rows, oldest first
    db_questions,          \* remote table questions: chapter_id -> number of rows
    neon_books,            \* localStorage neon_books: the ids of its books
    neon_chapters,         \* localStorage neon_chapters: id -> chapter
    neon_book_chapters,    \* localStorage neon_book_chapters: id -> chapter
    neon_json_files,       \* localStorage neon_json_files: its files, oldest first
    idb_subjects,          \* IndexedDB store subjects: the ids of its records
    idb_chapters,          \* IndexedDB store chapters: id -> chapter
    idb_questions,         \* IndexedDB store questions: chapterId -> number of records
    cascade,               \* the delete whose remote statements are being awaited
    initializationPromise, \* database-manager: "null", "pending" or "resolved"
    defaultDataRuns,       \* executions of initializeDefaultData
    tableInitRuns,         \* executions of the statements of initChaptersTable
    mutations,             \* createChapterMutation calls in flight: [title, at]
    book_chapters,         \* chapters createChapterInBook stored, oldest first: [id, title, store]
    jsonUploadModal,       \* chapters page: useState<JSONUploadState>
    csvUploadModal,        \* CSVUploadModal: its props and state
    uploads,               \* uploads the two dialogs have sent
    bg_images,             \* localStorage bg_images: 0 when absent, else 1
    quiz_stats,            \* localStorage quiz_stats: its entries, 0 when absent
    db_quiz_stats,         \* remote table quiz_stats: the number of its rows
    backup,                \* << >>, or << the document of the last download >>
    exported,              \* << >>, or << the local collections at the last download >>
    dmSql,                 \* module variable sql of database-manager: "null" or "client"
    userStats              \* << >>, or << quizStats.length of the last getUserStats >>

vars == << questions, currentQuestionIndex, selectedAnswers, showResults,
           quizStarted, timerPaused, quizType, timeLeft, isRunning, pending,
           mounted, saveCalls, lastSel, saving, toast,
           fileContent, current_quiz_data, sql, db_books, db_chapters,
           db_json_files, db_questions, neon_books, neon_chapters,
           neon_book_chapters, neon_json_files, idb_subjects, idb_chapters,
           idb_questions, cascade, initializationPromise, defaultDataRuns,
           tableInitRuns, mutations, book_chapters, jsonUploadModal,
           csvUploadModal, uploads, bg_images, quiz_stats, db_quiz_stats,
           backup, exported, dmSql, userStats >>

\* The backends and the delete that runs on them.
storage == << sql, db_books, db_chapters, db_json_files, db_questions, neon_books,
              neon_chapters, neon_book_chapters, neon_json_files, idb_subjects,
              idb_chapters, idb_questions, cascade >>

\* The book page: its requests and what they did.
bookPage == << tableInitRuns, mutations, book_chapters >>

\* The upload dialogs and the uploads they sent.
modals == << jsonUploadModal, csvUploadModal, uploads >>

\* The database manager: the localStorage keys it backs up, its backup
\* document, and the statistics it reads.
manager == << bg_images, quiz_stats, db_quiz_stats, backup, exported, dmSql,
             userStats >>

\* The module-level state of the process and the state of the pages other
\* than the quiz page.
process == << initializationPromise, defaultDataRuns, bookPage, modals, manager >>

\* The state outside the Quiz component.
outside == << fileContent, current_quiz_data, storage, process >>

\* The quiz page and what sessionStorage hands to it.
page == << questions, currentQuestionIndex, selectedAnswers, showResults,
           quizStarted, timerPaused, quizType, timeLeft, isRunning, pending,
           mounted, saveCalls, lastSel, saving, toast, fileContent,
           current_quiz_data >>

\* ------------------------------------------------------ string helpers

\* String.prototype.toUpperCase on the characters the model uses.
UpperOf(c) ==
    CASE c = "a" -> "A"
      [] c = "b" -> "B"
      [] c = "c" -> "C"
      [] c = "d" -> "D"
      [] OTHER -> c

toUpperCase(s) == [i \in 1..Len(s) |-> UpperOf(s[i])]

RECURSIVE trimStart(_)
trimStart(s) ==
    IF s # <<>> /\ Head(s) = " " THEN trimStart(Tail(s)) ELSE s

RECURSIVE trimEnd(_)
trimEnd(s) ==
    IF s # <<>> /\ s[Len(s)] = " " THEN trimEnd(SubSeq(s, 1, Len(s) - 1)) ELSE s

\* String.prototype.trim
trim(s) == trimEnd(trimStart(s))

\* ------------------------------------------------------ object helpers

objHas(obj, k) == \E i \in 1..Len(obj) : obj[i].key = k

\* obj[k]
objGet(obj, k) ==
    IF objHas(obj, k)
    THEN (CHOOSE e \in { obj[i] : i \in 1..Len(obj) } : e.key = k).value
    ELSE undefined

objPutAppend(obj, k, v) == Append(obj, [key |-> k, value |-> v])

\* { ...obj, [k]: v }
objPut(obj, k, v) ==
    LET below(e) == e.key < k
        above(e) == e.key > k
    IN  SelectSeq(obj, below) \o << [key |-> k, value |-> v] >> \o SelectSeq(obj, above)

\* JavaScript truthiness of a property value that is a string or undefined.
truthy(v) == v # undefined /\ v # <<>>

\* ------------------------------------------------------------ screens

totalQuestions == Len(questions)

\* questions[currentQuestionIndex] is defined
hasCurrentQuestion == currentQuestionIndex < totalQuestions

PreQuizScreen == mounted /\ totalQuestions > 0 /\ ~quizStarted

ResultsScreen == mounted /\ totalQuestions > 0 /\ quizStarted /\ showResults

InProgressScreen ==
    mounted /\ totalQuestions > 0 /\ quizStarted /\ ~showResults /\ hasCurrentQuestion

\* The session status the page shows.
status ==
    IF ~quizStarted THEN "NotStarted"
    ELSE IF showResults THEN "Completed"
    ELSE IF isRunning THEN "Running"
    ELSE "Paused"

\* ------------------------------------------------------------ scoring

countQuestionNoElse(acc, question, userAnswer) ==
    LET a == IF ~truthy(userAnswer)
             THEN [acc EXCEPT !.unanswered = @ + 1]
             ELSE acc
    IN  IF toUpperCase(trim(userAnswer)) = toUpperCase(trim(question.correctAnswer))
        THEN [a EXCEPT !.correct = @ + 1]
        ELSE [a EXCEPT !.incorrect = @ + 1]

\* The body of questions.forEach in calculateResults.
countQuestion(acc, question, userAnswer) ==
    IF ~truthy(userAnswer)
    THEN [acc EXCEPT !.unanswered = @ + 1]
    ELSE IF toUpperCase(trim(userAnswer)) = toUpperCase(trim(question.correctAnswer))
    THEN [acc EXCEPT !.correct = @ + 1]
    ELSE [acc EXCEPT !.incorrect = @ + 1]

RECURSIVE forEachQuestion(_, _, _, _)
forEachQuestion(qs, answers, index, acc) ==
    IF index >= Len(qs)
    THEN acc
    ELSE forEachQuestion(qs, answers, index + 1,
                         countQuestion(acc, qs[index + 1], objGet(answers, index)))

neetScoreSubtract(correct, incorrect) ==
    (correct * NEET_SCORING_CORRECT) - (incorrect * NEET_SCORING_INCORRECT)

\* const score = (correct * NEET_SCORING.CORRECT) + (incorrect * NEET_SCORING.INCORRECT)
neetScore(correct, incorrect) ==
    (correct * NEET_SCORING_CORRECT) + (incorrect * NEET_SCORING_INCORRECT)

calculateResults(qs, answers) ==
    LET t == forEachQuestion(qs, answers, 0,
                             [correct |-> 0, incorrect |-> 0, unanswered |-> 0])
    IN  [correct |-> t.correct, incorrect |-> t.incorrect,
         unanswered |-> t.unanswered, score |-> neetScore(t.correct, t.incorrect)]

\* -------------------------------------------------------- wrong-only

isWrongAnswerNoGuard(question, userAnswer) ==
    toUpperCase(trim(userAnswer)) # toUpperCase(trim(question.correctAnswer))

\* The predicate of questions.filter in handleWrongTry.
isWrongAnswer(question, userAnswer) ==
    /\ truthy(userAnswer)
    /\ toUpperCase(trim(userAnswer)) # toUpperCase(trim(question.correctAnswer))

RECURSIVE filterWrong(_, _, _)
filterWrong(qs, answers, index) ==
    IF index >= Len(qs)
    THEN <<>>
    ELSE (IF isWrongAnswer(qs[index + 1], objGet(answers, index))
          THEN << qs[index + 1] >>
          ELSE <<>>) \o filterWrong(qs, answers, index + 1)

\* const wrongQuestions = questions.filter(...)
wrongQuestions == filterWrong(questions, selectedAnswers, 0)

\* shuffleArray: every order of the array is a possible result.
shuffleArray(array) ==
    { [i \in 1..Len(array) |-> array[p[i]]] :
        p \in { f \in [1..Len(array) -> 1..Len(array)] :
                  \A i, j \in 1..Len(array) : f[i] = f[j] => i = j } }

\* -------------------------------------------------------------- timer

startTimer == isRunning' = TRUE

pauseTimer == isRunning' = FALSE

resetTimer == isRunning' = FALSE /\ timeLeft' = InitialTime

\* The remaining time after the next tick, or after the run of ticks that
\* crosses the middle of the budget with no other event in between.
afterTick(t) ==
    IF t > InitialTime - MaxTicks \/ t <= MaxTicks THEN t - 1 ELSE MaxTicks

\* -------------------------------------------------------- completion

\* saveQuizResult(results) is called by a render of the current session, or
\* (stale) by a render of a session that has been superseded.
\* The state counts the calls made for the current session; the record
\* written to quiz_stats is a function of qs and results alone.  The call
\* is awaited until the store answers, which it may never do: the model
\* follows one awaited call of the session on the page; a call made while
\* another is awaited, and a call still awaited when a new session is
\* constructed, is one whose answer never comes.
saveQuizResult(qs, results, stale) ==
    /\ saveCalls' = (IF stale THEN saveCalls ELSE saveCalls + 1)
    /\ saving' = TRUE

handleQuizCompleteAwaitsSave(qs, answers, stale) ==
    /\ showResults' = showResults
    /\ pauseTimer
    /\ saveQuizResult(qs, calculateResults(qs, answers), stale)

\* handleQuizComplete as created by a render with questions qs and answers
\* `answers`.  State setters of an unmounted component do nothing.
handleQuizComplete(qs, answers, stale) ==
    /\ showResults' = (mounted \/ showResults)
    /\ pauseTimer
    /\ saveQuizResult(qs, calculateResults(qs, answers), stale)

\* What a setTimeout callback created by the current render reads when it
\* runs: currentQuestionIndex and totalQuestions always, questions and
\* selectedAnswers (through handleQuizComplete) only on the last question.
closure(stale) ==
    LET last == ~(currentQuestionIndex < totalQuestions - 1)
    IN  [index |-> currentQuestionIndex,
         totalQuestions |-> totalQuestions,
         questions |-> IF last THEN questions ELSE <<>>,
         selectedAnswers |-> IF last THEN selectedAnswers ELSE <<>>,
         stale |-> stale]

\* The callbacks still scheduled when a new session is constructed belong to
\* the session it replaces.
superseded(callbacks) ==
    [i \in 1..Len(callbacks) |-> [callbacks[i] EXCEPT !.stale = TRUE]]

\* ------------------------------------------------------------ backends

\* Chapters created on the chapters page, chapters created in a book, and
\* the one chapter the model lets createNeonChapter add.
ChapterIds == 1..MaxChapters

BookChapterIds == (MaxChapters + 1)..(MaxChapters + MaxChapters)

NewChapterIds == { MaxChapters + MaxChapters + 1 }

AllChapterIds == ChapterIds \cup BookChapterIds \cup NewChapterIds

BookIds == { 1 }

SubjectIds == { 1 }

\* questionCount of an upload, questions.length of a bulk import.
BatchSizes == 1..MaxBatch

\* Where a handler's remote calls throw: nowhere, at the first statement
\* (the INSERT), or at the statement that follows the inserts (the UPDATE).
Throws == { "no", "insert", "update" }

\* No delete is running.
Idle == [op |-> "idle", id |-> 0, ids |-> {}, todo |-> <<>>]

\* const newChapter = {...} of createNeonChapter
newChapter(subjectId) ==
    [subjectId |-> subjectId, totalQuestions |-> 0, completedQuestions |-> 0]

\* const newChapter = {...} of createChapterInBook
newBookChapter(bookId) ==
    [bookId |-> bookId, totalQuestions |-> 0, completedQuestions |-> 0]

\* A row of the table chapters after its INSERT.
newChapterRow(book_id) ==
    [book_id |-> book_id, total_questions |-> 0, completed_questions |-> 0]

noRows == [c \in AllChapterIds |-> 0]

\* array.filter(x => x.id !== id) on a collection keyed by id
without(collection, ids) ==
    [c \in (DOMAIN collection) \ ids |-> collection[c]]

\* obj[name] = value on a stored object
setField(obj, name, value) == (name :> value) @@ obj

\* The stores of an installation that has always used the backend its
\* configuration selects: a book with its chapters and the chapters of the
\* chapters page, none of them with questions yet.  book_id 0 is NULL.
StorageInit(configured) ==
    /\ sql = configured
    /\ db_books = (IF sql THEN BookIds ELSE {})
    /\ db_chapters =
         (IF sql
          THEN [c \in ChapterIds \cup BookChapterIds |->
                  newChapterRow(IF c \in BookChapterIds THEN 1 ELSE 0)]
          ELSE << >>)
    /\ db_json_files = << >>
    /\ db_questions = noRows
    /\ neon_books = (IF sql THEN {} ELSE BookIds)
    /\ neon_chapters = (IF sql THEN << >> ELSE [c \in ChapterIds |-> newChapter(1)])
    /\ neon_book_chapters =
         (IF sql THEN << >> ELSE [c \in BookChapterIds |-> newBookChapter(1)])
    /\ neon_json_files = << >>
    /\ idb_subjects = SubjectIds
    /\ idb_chapters = [c \in ChapterIds |-> [subjectId |-> 1, totalQuestions |-> 0]]
    /\ idb_questions = noRows
    /\ cascade = Idle

\* The chapters the pages list and offer operations on.
listedChapters ==
    IF sql
    THEN DOMAIN db_chapters
    ELSE (DOMAIN neon_chapters) \cup (DOMAIN neon_book_chapters)

\* The local branch of saveJsonFileToNeon, which is also its catch block.
saveJsonFileLocally(chapterId, questionCount) ==
    /\ neon_json_files' =
         Append(neon_json_files,
                [chapter_id |-> chapterId, question_count |-> questionCount])
    /\ neon_chapters' =
         (IF chapterId \in DOMAIN neon_chapters
          THEN [neon_chapters EXCEPT
                  ![chapterId] = setField(@, "total_questions", questionCount)]
          ELSE neon_chapters)

\* INSERT INTO json_files ...
insertJsonFile(chapterId, questionCount) ==
    db_json_files' =
        Append(db_json_files,
               [chapter_id |-> chapterId, question_count |-> questionCount])

\* saveJsonFileToNeon of the chapters page and of the book page (the two
\* are the same code): a question file of questionCount questions is
\* uploaded to a chapter.
saveJsonFileToNeonWrites(chapterId, questionCount, throws) ==
    /\ chapterId \in listedChapters
    /\ Len(db_json_files) < MaxFiles
    /\ Len(neon_json_files) < MaxFiles
    /\ IF ~sql
       THEN /\ saveJsonFileLocally(chapterId, questionCount)
            /\ UNCHANGED << db_json_files, db_chapters >>
       ELSE CASE throws = "no" ->
                   /\ insertJsonFile(chapterId, questionCount)
                   /\ db_chapters' =
                        (IF chapterId \in DOMAIN db_chapters
                         THEN [db_chapters EXCEPT
                                 ![chapterId].total_questions = questionCount]
                         ELSE db_chapters)
                   /\ UNCHANGED << neon_json_files, neon_chapters >>
              [] throws = "insert" ->
                   /\ saveJsonFileLocally(chapterId, questionCount)
                   /\ UNCHANGED << db_json_files, db_chapters >>
              [] throws = "update" ->
                   /\ insertJsonFile(chapterId, questionCount)
                   /\ saveJsonFileLocally(chapterId, questionCount)
                   /\ UNCHANGED db_chapters
    /\ UNCHANGED << sql, db_books, db_questions, neon_books, neon_book_chapters,
                    idb_subjects, idb_chapters, idb_questions, cascade >>

\* saveJsonFileToNeon called while nothing else on the pages changes.
saveJsonFileToNeon(chapterId, questionCount, throws) ==
    /\ saveJsonFileToNeonWrites(chapterId, questionCount, throws)
    /\ UNCHANGED << page, process >>

\* await ensureInitialized() in an operation of the IndexedDB layer that
\* runs to its end: initializeDefaultData has run, now or before.
awaitInitialized ==
    /\ initializationPromise' = "resolved"
    /\ defaultDataRuns' =
         (IF initializationPromise = "null" THEN defaultDataRuns + 1 ELSE defaultDataRuns)

\* chapter.totalQuestions += n; indexedDB.put('chapters', chapter)
idbAddToTotal(chapters, chapterId, n) ==
    IF chapterId \in DOMAIN chapters
    THEN [chapters EXCEPT ![chapterId].totalQuestions = @ + n]
    ELSE chapters

\* createBulkQuestions: a batch of `count` questions is imported into a
\* chapter.  With a connection the rows go to the table questions and the
\* count is added to the row of the chapter; without one the rows go to
\* IndexedDB and the count is added to the chapter there.  After either
\* branch the count is added to the IndexedDB chapter (once more).
\* A remote statement that throws ends the import: the rows inserted
\* before it (inserted of them) stay.
createBulkQuestionsWrites(chapterId, count, throws, inserted) ==
    /\ chapterId \in (IF sql THEN DOMAIN db_chapters ELSE DOMAIN idb_chapters)
    /\ db_questions[chapterId] + count <= MaxRows
    /\ idb_questions[chapterId] + count <= MaxRows
    /\ chapterId \in DOMAIN db_chapters
         => db_chapters[chapterId].total_questions + count <= MaxTotal
    /\ chapterId \in DOMAIN idb_chapters
         => idb_chapters[chapterId].totalQuestions + count + count <= MaxTotal
    /\ IF sql
       THEN /\ UNCHANGED idb_questions
            /\ CASE throws = "no" ->
                   /\ db_questions' = [db_questions EXCEPT ![chapterId] = @ + count]
                   /\ db_chapters' =
                        (IF chapterId \in DOMAIN db_chapters
                         THEN [db_chapters EXCEPT
                                 ![chapterId].total_questions = @ + count]
                         ELSE db_chapters)
                   /\ idb_chapters' = idbAddToTotal(idb_chapters, chapterId, count)
                 [] throws = "insert" ->
                   /\ db_questions' = [db_questions EXCEPT ![chapterId] = @ + inserted]
                   /\ UNCHANGED << db_chapters, idb_chapters >>
                 [] throws = "update" ->
                   /\ db_questions' = [db_questions EXCEPT ![chapterId] = @ + count]
                   /\ UNCHANGED << db_chapters, idb_chapters >>
       ELSE /\ idb_questions' = [idb_questions EXCEPT ![chapterId] = @ + count]
            /\ idb_chapters' =
                 idbAddToTotal(idbAddToTotal(idb_chapters, chapterId, count),
                               chapterId, count)
            /\ UNCHANGED << db_questions, db_chapters >>
    /\ UNCHANGED << sql, db_books, db_json_files, neon_books, neon_chapters,
                    neon_book_chapters, neon_json_files, idb_subjects, cascade >>
    /\ awaitInitialized

\* createBulkQuestions called while nothing else on the pages changes.
createBulkQuestions(chapterId, count, throws, inserted) ==
    /\ createBulkQuestionsWrites(chapterId, count, throws, inserted)
    /\ UNCHANGED << page, bookPage, modals, manager >>

\* chapter.totalQuestions as the chapter list shows it.
listedTotalQuestions(chapterId) ==
    IF sql
    THEN db_chapters[chapterId].total_questions
    ELSE IF chapterId \in DOMAIN neon_chapters
    THEN neon_chapters[chapterId].totalQuestions
    ELSE neon_book_chapters[chapterId].totalQuestions

\* files.find((file) => file.chapter_id === chapterId) finds a file
hasJsonFile(files, chapterId) ==
    \E i \in 1..Len(files) : files[i].chapter_id = chapterId

\* The positions of the files of a chapter in a list of files.
filesOfChapter(files, chapterId) ==
    { i \in 1..Len(files) : files[i].chapter_id = chapterId }

\* files.find((file) => file.chapter_id === chapterId): the first file of
\* the chapter in the order of upload, << >> when there is none.
findJsonFile(files, chapterId) ==
    IF filesOfChapter(files, chapterId) = {}
    THEN << >>
    ELSE << files[CHOOSE i \in filesOfChapter(files, chapterId) :
                    \A j \in filesOfChapter(files, chapterId) : i <= j] >>

\* SELECT * FROM json_files WHERE chapter_id = $1 ORDER BY created_at DESC
\* LIMIT 1: the file of the chapter uploaded last, << >> when there is none.
selectLatestJsonFile(files, chapterId) ==
    IF filesOfChapter(files, chapterId) = {}
    THEN << >>
    ELSE << files[CHOOSE i \in filesOfChapter(files, chapterId) :
                    \A j \in filesOfChapter(files, chapterId) : i >= j] >>

\* getNeonJsonFile: the file a quiz of the chapter is started on.  Without
\* a connection, and when the SELECT throws, it is looked up in
\* localStorage.
getNeonJsonFile(chapterId, throws) ==
    IF sql /\ ~throws
    THEN selectLatestJsonFile(db_json_files, chapterId)
    ELSE findJsonFile(neon_json_files, chapterId)

\* The start-quiz button of a listed chapter opens a quiz: the chapter
\* shows a positive totalQuestions and getNeonJsonFile returns a file (the
\* local one when the SELECT throws).
quizAvailable(chapterId) ==
    /\ chapterId \in listedChapters
    /\ listedTotalQuestions(chapterId) > 0
    /\ \/ hasJsonFile(neon_json_files, chapterId)
       \/ sql /\ hasJsonFile(db_json_files, chapterId)

\* The storage part of saveQuizResult for a quiz of chapter currentChapterId:
\* the result is written to quiz_stats (a row of the table, or an entry of
\* the localStorage key without a connection), then the chapter's
\* completed counter is raised.  A statement that throws is caught and
\* reported by a toast.
saveQuizResultOfChapter(currentChapterId, throws) ==
    /\ quizAvailable(currentChapterId)
    /\ saveCalls < MaxAttempts
    /\ saveCalls' = saveCalls + 1
    /\ IF sql
       THEN /\ db_chapters' =
                 (IF /\ throws = "no"
                     /\ currentChapterId \in DOMAIN db_chapters
                     /\ db_chapters[currentChapterId].completed_questions
                          < db_chapters[currentChapterId].total_questions
                  THEN [db_chapters EXCEPT
                          ![currentChapterId].completed_questions = @ + 1]
                  ELSE db_chapters)
            /\ db_quiz_stats' = (IF throws = "insert" THEN db_quiz_stats
                                 ELSE db_quiz_stats + 1)
            /\ UNCHANGED << neon_chapters, quiz_stats >>
       ELSE /\ quiz_stats' = quiz_stats + 1
            /\ neon_chapters' =
                 (IF /\ currentChapterId \in DOMAIN neon_chapters
                     /\ neon_chapters[currentChapterId].completedQuestions
                          < neon_chapters[currentChapterId].totalQuestions
                  THEN [neon_chapters EXCEPT
                          ![currentChapterId].completedQuestions = @ + 1]
                  ELSE neon_chapters)
            /\ UNCHANGED << db_chapters, db_quiz_stats >>
    /\ UNCHANGED << sql, db_books, db_json_files, db_questions, neon_books,
                    neon_book_chapters, neon_json_files, idb_subjects,
                    idb_chapters, idb_questions, cascade >>
    /\ UNCHANGED << questions, currentQuestionIndex, selectedAnswers,
                    showResults, quizStarted, timerPaused, quizType, timeLeft,
                    isRunning, pending, mounted, lastSel, saving, toast,
                    fileContent, current_quiz_data >>
    /\ UNCHANGED << initializationPromise, defaultDataRuns, bookPage, modals,
                    bg_images, backup, exported, dmSql, userStats >>

\* createNeonChapter: the chapters page adds a chapter.
createNeonChapter(id, throws) ==
    /\ id \in NewChapterIds
    /\ id \notin (DOMAIN db_chapters) \cup (DOMAIN neon_chapters)
    /\ IF sql /\ throws = "no"
       THEN /\ db_chapters' = (id :> newChapterRow(0)) @@ db_chapters
            /\ UNCHANGED neon_chapters
       ELSE /\ neon_chapters' = (id :> newChapter(1)) @@ neon_chapters
            /\ UNCHANGED db_chapters
    /\ UNCHANGED << sql, db_books, db_json_files, db_questions, neon_books,
                    neon_book_chapters, neon_json_files, idb_subjects,
                    idb_chapters, idb_questions, cascade >>
    /\ UNCHANGED << page, process >>

\* jsonFiles.filter((f) => f.chapterId !== id): the stored files have the
\* property chapter_id and no property chapterId.
keepsFile(f, ids) == ~("chapterId" \in DOMAIN f /\ f.chapterId \in ids)

\* The local branch of deleteNeonChapter, which is also its catch block.
deleteNeonChapterLocally(id) ==
    /\ neon_chapters' = without(neon_chapters, {id})
    /\ neon_json_files' = SelectSeq(neon_json_files, LAMBDA f : keepsFile(f, {id}))

\* deleteNeonChapter: without a connection the whole delete is local; with
\* one, its three DELETE statements are awaited one after the other.
deleteNeonChapter(id) ==
    /\ cascade = Idle
    /\ id \in (DOMAIN db_chapters) \cup (DOMAIN neon_chapters)
    /\ IF ~sql
       THEN /\ deleteNeonChapterLocally(id)
            /\ UNCHANGED cascade
       ELSE /\ cascade' = [op |-> "deleteNeonChapter", id |-> id, ids |-> {id},
                           todo |-> << "json_files", "questions", "chapters" >>]
            /\ UNCHANGED << neon_chapters, neon_json_files >>
    /\ UNCHANGED << sql, db_books, db_chapters, db_json_files, db_questions,
                    neon_books, neon_book_chapters, idb_subjects, idb_chapters,
                    idb_questions >>
    /\ UNCHANGED << page, process >>

\* deleteChapterFromBook of the book page.
deleteChapterFromBook(id) ==
    /\ cascade = Idle
    /\ id \in (DOMAIN db_chapters) \cup (DOMAIN neon_book_chapters)
    /\ IF ~sql
       THEN /\ neon_book_chapters' = without(neon_book_chapters, {id})
            /\ neon_json_files' =
                 SelectSeq(neon_json_files, LAMBDA f : keepsFile(f, {id}))
            /\ UNCHANGED cascade
       ELSE /\ cascade' = [op |-> "deleteChapterFromBook", id |-> id, ids |-> {id},
                           todo |-> << "json_files", "questions", "chapters" >>]
            /\ UNCHANGED << neon_book_chapters, neon_json_files >>
    /\ UNCHANGED << sql, db_books, db_chapters, db_json_files, db_questions,
                    neon_books, neon_chapters, idb_subjects, idb_chapters,
                    idb_questions >>
    /\ UNCHANGED << page, process >>

\* chapters.filter((chapter) => chapter.bookId === bookId).map((c) => c.id)
localChaptersOfBook(bookId) ==
    { c \in DOMAIN neon_book_chapters : neon_book_chapters[c].bookId = bookId }

\* deleteBookWithCascade of the book page.
deleteBookWithCascade(bookId) ==
    /\ cascade = Idle
    /\ bookId \in db_books \cup neon_books
    /\ IF ~sql
       THEN /\ neon_books' = neon_books \ {bookId}
            /\ neon_json_files' =
                 SelectSeq(neon_json_files,
                           LAMBDA f : keepsFile(f, localChaptersOfBook(bookId)))
            /\ neon_book_chapters' =
                 without(neon_book_chapters, localChaptersOfBook(bookId))
            /\ UNCHANGED cascade
       ELSE /\ cascade' = [op |-> "deleteBookWithCascade", id |-> bookId, ids |-> {},
                           todo |-> << "select" >>]
            /\ UNCHANGED << neon_books, neon_json_files, neon_book_chapters >>
    /\ UNCHANGED << sql, db_books, db_chapters, db_json_files, db_questions,
                    neon_chapters, idb_subjects, idb_chapters, idb_questions >>
    /\ UNCHANGED << page, process >>

\* deleteBookWithCascade of the study page, which has no local branch:
\* without a connection its first call throws at once.
studyDeleteBookWithCascade(bookId) ==
    /\ cascade = Idle
    /\ bookId \in db_books \cup neon_books
    /\ cascade' =
         (IF sql
          THEN [op |-> "studyDeleteBookWithCascade", id |-> bookId, ids |-> {},
                todo |-> << "select" >>]
          ELSE cascade)
    /\ UNCHANGED << sql, db_books, db_chapters, db_json_files, db_questions,
                    neon_books, neon_chapters, neon_book_chapters, neon_json_files,
                    idb_subjects, idb_chapters, idb_questions >>
    /\ UNCHANGED << page, process >>

\* The statements a book delete awaits after its SELECT found chapterIds.
afterSelect(chapterIds) ==
    IF chapterIds = {}
    THEN << "chapters", "books" >>
    ELSE << "json_files", "questions", "chapters", "books" >>

\* The next statement of the running delete is executed by the database.
executeStatement ==
    LET statement == Head(cascade.todo)
        rest == Tail(cascade.todo)
        ofBook == { c \in DOMAIN db_chapters : db_chapters[c].book_id = cascade.id }
    IN  /\ cascade' =
             (IF statement = "select"
              THEN [cascade EXCEPT !.ids = ofBook, !.todo = afterSelect(ofBook)]
              ELSE IF rest = << >> THEN Idle
              ELSE [cascade EXCEPT !.todo = rest])
        /\ db_json_files' =
             (IF statement = "json_files"
              THEN SelectSeq(db_json_files, LAMBDA f : f.chapter_id \notin cascade.ids)
              ELSE db_json_files)
        /\ db_questions' =
             (IF statement = "questions"
              THEN [c \in AllChapterIds |->
                      IF c \in cascade.ids THEN 0 ELSE db_questions[c]]
              ELSE db_questions)
        /\ db_chapters' =
             (IF statement = "chapters"
              THEN without(db_chapters,
                           IF cascade.op \in { "deleteNeonChapter",
                                               "deleteChapterFromBook" }
                           THEN cascade.ids ELSE ofBook)
              ELSE db_chapters)
        /\ db_books' =
             (IF statement = "books" THEN db_books \ {cascade.id} ELSE db_books)
        /\ UNCHANGED << neon_books, neon_chapters, neon_book_chapters,
                        neon_json_files >>

\* The next statement of the running delete throws: the catch block of the
\* function that awaits it runs, and the delete is over.
statementThrows ==
    /\ cascade' = Idle
    /\ CASE cascade.op = "deleteNeonChapter" ->
              /\ deleteNeonChapterLocally(cascade.id)
              /\ UNCHANGED << neon_books, neon_book_chapters >>
         [] cascade.op = "deleteChapterFromBook" ->
              /\ neon_book_chapters' = without(neon_book_chapters, {cascade.id})
              /\ UNCHANGED << neon_books, neon_chapters, neon_json_files >>
         [] OTHER ->
              UNCHANGED << neon_books, neon_chapters, neon_book_chapters,
                           neon_json_files >>
    /\ UNCHANGED << db_books, db_chapters, db_json_files, db_questions >>

\* One await of the running delete settles.
cascadeStep(throws) ==
    /\ cascade # Idle
    /\ IF throws THEN statementThrows ELSE executeStatement
    /\ UNCHANGED << sql, idb_subjects, idb_chapters, idb_questions >>
    /\ UNCHANGED << page, process >>

\* deleteChapter of the IndexedDB layer: the questions of the chapter, then
\* the chapter.
idbDeleteChapter(chapters, rows, id) ==
    [chapters |-> without(chapters, {id}),
     questions |-> [c \in AllChapterIds |-> IF c = id THEN 0 ELSE rows[c]]]

deleteChapter(id) ==
    /\ id \in DOMAIN idb_chapters
    /\ idb_chapters' = idbDeleteChapter(idb_chapters, idb_questions, id).chapters
    /\ idb_questions' = idbDeleteChapter(idb_chapters, idb_questions, id).questions
    /\ UNCHANGED << sql, db_books, db_chapters, db_json_files, db_questions,
                    neon_books, neon_chapters, neon_book_chapters, neon_json_files,
                    idb_subjects, cascade >>
    /\ awaitInitialized
    /\ UNCHANGED << page, bookPage, modals, manager >>

\* deleteSubject of the IndexedDB layer: deleteChapter for each chapter of
\* the subject, then the subject.
deleteSubject(id) ==
    /\ id \in idb_subjects
    /\ LET ofSubject == { c \in DOMAIN idb_chapters : idb_chapters[c].subjectId = id }
       IN  /\ idb_chapters' = without(idb_chapters, ofSubject)
           /\ idb_questions' =
                [c \in AllChapterIds |-> IF c \in ofSubject THEN 0 ELSE idb_questions[c]]
    /\ idb_subjects' = idb_subjects \ {id}
    /\ UNCHANGED << sql, db_books, db_chapters, db_json_files, db_questions,
                    neon_books, neon_chapters, neon_book_chapters, neon_json_files,
                    cascade >>
    /\ awaitInitialized
    /\ UNCHANGED << page, bookPage, modals, manager >>

\* ------------------------------------------------------ the process

\* No parse error.
NoError == ""

\* The state the json upload dialog of the chapters page is created with and
\* reset to.
JSONUploadClosed ==
    [isOpen |-> FALSE, chapterId |-> 0, selectedFile |-> << >>,
     parsedQuestions |-> << >>, parseError |-> NoError]

\* CSVUploadModal while it is closed.
CSVUploadClosed ==
    [isOpen |-> FALSE, chapterId |-> 0, selectedFile |-> << >>,
     parsedQuestions |-> << >>, parseError |-> NoError]

\* The database manager at the start of the process, over a localStorage
\* with or without a background image and a table quiz_stats of rows rows.
ManagerInit(images, rows) ==
    /\ bg_images = images
    /\ quiz_stats = 0
    /\ db_quiz_stats = rows
    /\ backup = << >>
    /\ exported = << >>
    /\ dmSql = "null"
    /\ userStats = << >>

\* The pages at the start of the process: nothing is initialized, no
\* request is in flight, no dialog is open.
PagesInit ==
    /\ initializationPromise = "null"
    /\ defaultDataRuns = 0
    /\ tableInitRuns = 0
    /\ mutations = << >>
    /\ book_chapters = << >>
    /\ jsonUploadModal = JSONUploadClosed
    /\ csvUploadModal = CSVUploadClosed
    /\ uploads = 0

\* The process has started over a localStorage without bg_images and an
\* empty table quiz_stats.
ProcessInit == PagesInit /\ ManagerInit(0, 0)

\* The quiz page and sessionStorage, toast aside.
pageButToast == << questions, currentQuestionIndex, selectedAnswers, showResults,
                   quizStarted, timerPaused, quizType, timeLeft, isRunning,
                   pending, mounted, saveCalls, lastSel, saving, fileContent,
                   current_quiz_data >>

\* ensureInitialized, called by an operation of the IndexedDB layer: the
\* first call starts initializeDefaultData and keeps its promise, every
\* later call returns the promise kept.
ensureInitialized ==
    /\ IF initializationPromise = "null"
       THEN /\ initializationPromise' = "pending"
            /\ defaultDataRuns' = defaultDataRuns + 1
       ELSE UNCHANGED << initializationPromise, defaultDataRuns >>
    /\ UNCHANGED << page, storage, bookPage, modals, manager >>

\* initializeDefaultData returns: the subjects exist already.
initializeDefaultData ==
    /\ initializationPromise = "pending"
    /\ initializationPromise' = "resolved"
    /\ UNCHANGED << defaultDataRuns, page, storage, bookPage, modals, manager >>

\* ------------------------------------------------------ the book page

\* String.prototype.toLowerCase on the characters the model uses.
LowerOf(c) ==
    CASE c = "A" -> "a"
      [] c = "B" -> "b"
      [] OTHER -> c

toLowerCase(s) == [i \in 1..Len(s) |-> LowerOf(s[i])]

\* The titles typed into the form of the create-chapter dialog.
Titles == { <<"a">>, <<"A">>, <<"b">> }

\* Math.floor(Math.random() * 90000 + 10000): the values it may return.
generateChapterId == { 10000 + n : n \in 0..(MaxIds - 1) }

\* The chapters of the book that a store holds.
chaptersIn(store) == SelectSeq(book_chapters, LAMBDA c : c.store = store)

\* chapters.some((chapter) => chapter.title.toLowerCase() === title.toLowerCase())
\* and SELECT COUNT(*) ... WHERE LOWER(title) = LOWER($1)
hasTitle(chapters, title) ==
    \E i \in 1..Len(chapters) :
        toLowerCase(chapters[i].title) = toLowerCase(title)

\* checkDuplicateChapterName: the answer of the store the configuration
\* selects; false when the SELECT throws.
checkDuplicateChapterName(title, throws) ==
    IF ~sql THEN hasTitle(chaptersIn("local"), title)
    ELSE IF throws THEN FALSE
    ELSE hasTitle(chaptersIn("remote"), title)

\* The mutations in flight without the i-th.
settled(i) ==
    SubSeq(mutations, 1, i - 1) \o SubSeq(mutations, i + 1, Len(mutations))

\* createChapterMutation.mutate(data): the form is submitted and the
\* duplicate check is awaited.
createChapterMutation(title) ==
    /\ Len(mutations) < MaxMutations
    /\ Len(mutations) + Len(book_chapters) < MaxCreated
    /\ mutations' = Append(mutations, [title |-> title, at |-> "check"])
    /\ toast' = NoToast
    /\ UNCHANGED << initializationPromise, defaultDataRuns, tableInitRuns,
                    book_chapters >>
    /\ UNCHANGED << pageButToast, storage, modals, manager >>

\* The duplicate check of the i-th mutation in flight settles: a duplicate
\* makes mutationFn throw and onError raise its toast, otherwise
\* createChapterInBook is called.
checkSettles(i, throws) ==
    /\ i \in 1..Len(mutations)
    /\ mutations[i].at = "check"
    /\ IF checkDuplicateChapterName(mutations[i].title, throws)
       THEN /\ mutations' = settled(i)
            /\ toast' = "Error"
       ELSE /\ mutations' = [mutations EXCEPT ![i].at = "create"]
            /\ toast' = NoToast
    /\ UNCHANGED << initializationPromise, defaultDataRuns, tableInitRuns,
                    book_chapters >>
    /\ UNCHANGED << pageButToast, storage, modals, manager >>

\* The id column of the table chapters is its primary key.
hasId(chapters, id) == \E i \in 1..Len(chapters) : chapters[i].id = id

\* createChapterInBook of the i-th mutation in flight: the id is drawn;
\* without a connection the chapter is pushed to the local list; with one,
\* initChaptersTable is awaited and the row inserted, and when a statement
\* throws the catch block pushes the chapter to the local list.  onSuccess
\* raises its toast.
createChapterInBook(i, chapterId, throws) ==
    /\ i \in 1..Len(mutations)
    /\ mutations[i].at = "create"
    /\ chapterId \in generateChapterId
    /\ LET newChapterOf(store) ==
               [id |-> chapterId, title |-> mutations[i].title, store |-> store]
       IN  IF ~sql
           THEN /\ book_chapters' = Append(book_chapters, newChapterOf("local"))
                /\ UNCHANGED tableInitRuns
           ELSE /\ tableInitRuns' = tableInitRuns + 1
                /\ book_chapters' =
                     Append(book_chapters,
                            IF throws \/ hasId(chaptersIn("remote"), chapterId)
                            THEN newChapterOf("local")
                            ELSE newChapterOf("remote"))
    /\ mutations' = settled(i)
    /\ toast' = "Success"
    /\ UNCHANGED << initializationPromise, defaultDataRuns >>
    /\ UNCHANGED << pageButToast, storage, modals, manager >>

\* ------------------------------------------------------------ actions

NoAnswers == [i \in 0..(MaxQuestions - 1) |-> undefined]

QuestionSets ==
    { [i \in 1..n |-> [id |-> i, correctAnswer |-> CorrectAnswerOf(i)]] :
        n \in 1..MaxQuestions }

\* The page after its mount effect has loaded a valid question set.
Init ==
    /\ questions \in QuestionSets
    /\ currentQuestionIndex = 0
    /\ selectedAnswers = <<>>
    /\ showResults = FALSE
    /\ quizStarted = FALSE
    /\ timerPaused = FALSE
    /\ quizType = "normal"
    /\ timeLeft = InitialTime
    /\ isRunning = FALSE
    /\ pending = <<>>
    /\ mounted = TRUE
    /\ saveCalls = 0
    /\ lastSel = NoAnswers
    /\ saving = FALSE
    /\ toast = NoToast
    /\ fileContent = questions
    /\ current_quiz_data = << questions >>
    /\ StorageInit(FALSE)
    /\ ProcessInit

handleStartQuiz ==
    /\ toast' = NoToast
    /\ UNCHANGED << saving, outside >>
    /\ PreQuizScreen
    /\ quizStarted' = TRUE
    /\ startTimer
    /\ UNCHANGED << questions, currentQuestionIndex, selectedAnswers, showResults,
                    timerPaused, quizType, timeLeft, pending, mounted, saveCalls,
                    lastSel >>

handleAnswerSelect(optionLetter) ==
    /\ toast' = NoToast
    /\ UNCHANGED << saving, outside >>
    /\ InProgressScreen
    /\ Len(pending) < MaxPending
    /\ selectedAnswers' = objPut(selectedAnswers, currentQuestionIndex, optionLetter)
    /\ pending' = Append(pending, closure(FALSE))
    /\ lastSel' = [lastSel EXCEPT ![currentQuestionIndex] = optionLetter]
    /\ UNCHANGED << questions, currentQuestionIndex, showResults, quizStarted,
                    timerPaused, quizType, timeLeft, isRunning, mounted, saveCalls >>

\* The callback handleAnswerSelect passed to setTimeout runs.
AutoAdvance ==
    /\ pending # <<>>
    /\ toast' = NoToast
    /\ UNCHANGED outside
    /\ pending' = Tail(pending)
    /\ LET cb == Head(pending)
       IN  IF cb.index < cb.totalQuestions - 1
           THEN /\ currentQuestionIndex' =
                     (IF mounted THEN currentQuestionIndex + 1 ELSE currentQuestionIndex)
                /\ UNCHANGED << showResults, isRunning, saveCalls, saving >>
           ELSE /\ handleQuizComplete(cb.questions, cb.selectedAnswers, cb.stale)
                /\ UNCHANGED currentQuestionIndex
    /\ UNCHANGED << questions, selectedAnswers, quizStarted, timerPaused, quizType,
                    timeLeft, mounted, lastSel >>

handlePauseTimerResets ==
    /\ toast' = NoToast
    /\ UNCHANGED << saving, outside >>
    /\ InProgressScreen
    /\ IF isRunning
       THEN pauseTimer /\ timerPaused' = TRUE /\ UNCHANGED timeLeft
       ELSE resetTimer /\ timerPaused' = FALSE
    /\ UNCHANGED << questions, currentQuestionIndex, selectedAnswers, showResults,
                    quizStarted, quizType, pending, mounted, saveCalls,
                    lastSel >>

handlePauseTimer ==
    /\ toast' = NoToast
    /\ UNCHANGED << saving, outside >>
    /\ InProgressScreen
    /\ IF isRunning
       THEN pauseTimer /\ timerPaused' = TRUE
       ELSE startTimer /\ timerPaused' = FALSE
    /\ UNCHANGED << questions, currentQuestionIndex, selectedAnswers, showResults,
                    quizStarted, quizType, timeLeft, pending, mounted, saveCalls,
                    lastSel >>

handleExitQuiz ==
    /\ toast' = NoToast
    /\ UNCHANGED << saving, outside >>
    /\ InProgressScreen
    /\ showResults' = TRUE
    /\ pauseTimer
    /\ UNCHANGED << questions, currentQuestionIndex, selectedAnswers, quizStarted,
                    timerPaused, quizType, timeLeft, pending, mounted, saveCalls,
                    lastSel >>

handlePlayAgain ==
    /\ toast' = NoToast
    /\ saving' = FALSE
    /\ UNCHANGED outside
    /\ ResultsScreen
    /\ currentQuestionIndex' = 0
    /\ selectedAnswers' = <<>>
    /\ showResults' = FALSE
    /\ quizStarted' = FALSE
    /\ timerPaused' = FALSE
    /\ resetTimer
    /\ pending' = superseded(pending)
    /\ saveCalls' = 0
    /\ lastSel' = NoAnswers
    /\ UNCHANGED << questions, quizType, mounted >>

\* {incorrect > 0 && (<Button onClick={handleWrongTry} ...>)} on the results
\* screen: the button is rendered only when calculateResults counts a wrong
\* answer.
wrongTryButtonShown ==
    /\ ResultsScreen
    /\ calculateResults(questions, selectedAnswers).incorrect > 0

handleWrongTryNoCheck ==
    /\ questions' \in shuffleArray(wrongQuestions)
    /\ currentQuestionIndex' = 0
    /\ selectedAnswers' = <<>>
    /\ showResults' = FALSE
    /\ quizStarted' = FALSE
    /\ timerPaused' = FALSE
    /\ quizType' = "wrongOnly"
    /\ resetTimer
    /\ pending' = superseded(pending)
    /\ saveCalls' = 0
    /\ lastSel' = NoAnswers
    /\ toast' = NoToast
    /\ saving' = FALSE
    /\ UNCHANGED << mounted, outside >>

\* The handler, as the render of a results screen creates it.
handleWrongTry ==
    /\ IF Len(wrongQuestions) = 0
       THEN /\ toast' = "Perfect Score!"
            /\ UNCHANGED << questions, currentQuestionIndex, selectedAnswers,
                            showResults, quizStarted, timerPaused, quizType,
                            timeLeft, isRunning, pending, saveCalls, lastSel,
                            saving >>
       ELSE /\ toast' = NoToast
            /\ questions' \in shuffleArray(wrongQuestions)
            /\ currentQuestionIndex' = 0
            /\ selectedAnswers' = <<>>
            /\ showResults' = FALSE
            /\ quizStarted' = FALSE
            /\ timerPaused' = FALSE
            /\ quizType' = "wrongOnly"
            /\ resetTimer
            /\ pending' = superseded(pending)
            /\ saveCalls' = 0
            /\ lastSel' = NoAnswers
            /\ saving' = FALSE
    /\ UNCHANGED << mounted, outside >>

\* A click on "Practice Wrong Answers".
PracticeWrongAnswers == wrongTryButtonShown /\ handleWrongTry

\* handleGoHome on the results screen, "Back to Chapters" before the start:
\* the route changes and the component unmounts, which stops the timer.
\* handleGoHome removes the quiz data from sessionStorage first.
handleGoHome ==
    /\ toast' = NoToast
    /\ UNCHANGED << saving, fileContent, storage, process >>
    /\ PreQuizScreen \/ ResultsScreen
    /\ current_quiz_data' = (IF ResultsScreen THEN <<>> ELSE current_quiz_data)
    /\ mounted' = FALSE
    /\ pauseTimer
    /\ UNCHANGED << questions, currentQuestionIndex, selectedAnswers, showResults,
                    quizStarted, timerPaused, quizType, timeLeft, pending,
                    saveCalls, lastSel >>

\* The countdown: one second less while running; at zero, onTimeUp of the
\* current render.
Tick ==
    /\ mounted
    /\ isRunning
    /\ timeLeft > 0
    /\ timeLeft' = afterTick(timeLeft)
    /\ toast' = NoToast
    /\ UNCHANGED outside
    /\ IF timeLeft' = 0
       THEN handleQuizComplete(questions, selectedAnswers, FALSE)
       ELSE UNCHANGED << showResults, isRunning, saveCalls, saving >>
    /\ UNCHANGED << questions, currentQuestionIndex, selectedAnswers, quizStarted,
                    timerPaused, quizType, pending, mounted, lastSel >>

\* The await of a saveQuizResult call settles: the save went through (ok)
\* or threw, and saveQuizResult raises the toast that says so.  The
\* continuation of handleQuizComplete after its await does nothing more.
saveQuizResultSettles(ok) ==
    /\ saving
    /\ saving' = FALSE
    /\ toast' = (IF ok THEN "Quiz Result Saved!" ELSE "Error")
    /\ UNCHANGED << questions, currentQuestionIndex, selectedAnswers, showResults,
                    quizStarted, timerPaused, quizType, timeLeft, isRunning,
                    pending, mounted, saveCalls, lastSel, outside >>

Next ==
    \/ handleStartQuiz
    \/ \E optionLetter \in ClickedKeys : handleAnswerSelect(optionLetter)
    \/ AutoAdvance
    \/ handlePauseTimer
    \/ handleExitQuiz
    \/ handlePlayAgain
    \/ PracticeWrongAnswers
    \/ handleGoHome
    \/ Tick

\* The page while the store does not answer.
Spec == Init /\ [][Next]_vars

\* The page and the answers of the store to its saves.
SaveNext ==
    \/ Next
    \/ \E ok \in BOOLEAN : saveQuizResultSettles(ok)

SaveSpec == Init /\ [][SaveNext]_vars

\* handleWrongTry called on any results screen, whatever the score: the
\* handler on every input it can be given.
WrongTryOnAnyResult == ResultsScreen /\ handleWrongTry

\* The steps of the page while the clock does not tick (a session is short
\* of its thirty minutes), with the handler in place of its button.
WrongTryNext ==
    \/ handleStartQuiz
    \/ \E optionLetter \in ClickedKeys : handleAnswerSelect(optionLetter)
    \/ AutoAdvance
    \/ handlePauseTimer
    \/ handleExitQuiz
    \/ handlePlayAgain
    \/ handleGoHome
    \/ WrongTryOnAnyResult

WrongTrySpec == Init /\ [][WrongTryNext]_vars

\* ------------------------------------------------- question loading

\* A record of a question file with every field present.
fullRecord(answer) ==
    [question |-> <<"q">>, optionA |-> <<"a">>, optionB |-> <<"b">>,
     optionC |-> <<"c">>, optionD |-> <<"d">>, correctAnswer |-> answer]

\* The records a question file is made of: complete ones whose
\* correctAnswer is an option key, a key in lower case after a blank, or
\* the letter E; one without optionC; one whose correctAnswer is "".
CandidateRecords ==
    { fullRecord(<<"A">>), fullRecord(<<" ", "b">>), fullRecord(<<"E">>),
      [fullRecord(<<"A">>) EXCEPT !.optionC = undefined],
      fullRecord(<<>>) }

QuestionFiles ==
    UNION { [1..n -> CandidateRecords] : n \in 1..MaxRecords }

swapOverwrites(shuffled, i, j) ==
    [shuffled EXCEPT ![i + 1] = shuffled[j + 1]]

\* [shuffled[i], shuffled[j]] = [shuffled[j], shuffled[i]]
swap(shuffled, i, j) ==
    [shuffled EXCEPT ![i + 1] = shuffled[j + 1], ![j + 1] = shuffled[i + 1]]

\* for (let i = ...; i > 0; i--) { const j = Math.floor(Math.random() * (i + 1)); swap }
\* from index i down: every result the loop can leave.
RECURSIVE shuffleLoop(_, _)
shuffleLoop(shuffled, i) ==
    IF i > 0
    THEN UNION { shuffleLoop(swap(shuffled, i, j), i - 1) : j \in 0..i }
    ELSE { shuffled }

\* The shuffleArray that the start-quiz handler of the chapters page declares.
chaptersShuffleArray(array) == shuffleLoop(array, Len(array) - 1)

\* The start-quiz button of a chapter that has a question file: the file's
\* array is shuffled and stored in sessionStorage, and the route changes to
\* the quiz page.
startChapterQuiz ==
    /\ ~mounted
    /\ Len(fileContent) > 0
    /\ \E randomizedQuestions \in chaptersShuffleArray(fileContent) :
           current_quiz_data' = << randomizedQuestions >>
    /\ mounted' = TRUE
    /\ questions' = <<>>
    /\ toast' = NoToast
    /\ UNCHANGED << currentQuestionIndex, selectedAnswers, showResults, quizStarted,
                    timerPaused, quizType, timeLeft, isRunning, pending, saveCalls,
                    lastSel, saving, fileContent, storage, process >>

\* <Route path="/quiz" component={Quiz} />: the quiz page is opened by its
\* address, with whatever sessionStorage holds.
openQuizRoute ==
    /\ ~mounted
    /\ mounted' = TRUE
    /\ questions' = <<>>
    /\ toast' = NoToast
    /\ UNCHANGED << currentQuestionIndex, selectedAnswers, showResults, quizStarted,
                    timerPaused, quizType, timeLeft, isRunning, pending, saveCalls,
                    lastSel, saving, outside >>

\* q && q.question && q.optionA && q.optionB && q.optionC && q.optionD && q.correctAnswer
isValidQuestion(q) ==
    /\ truthy(q.question)
    /\ truthy(q.optionA)
    /\ truthy(q.optionB)
    /\ truthy(q.optionC)
    /\ truthy(q.optionD)
    /\ truthy(q.correctAnswer)

\* questionsArray.filter(...)
validQuestions(questionsArray) == SelectSeq(questionsArray, isValidQuestion)

\* The mount effect of the quiz page.
loadQuestionsFromSession ==
    /\ mounted
    /\ questions = <<>>
    /\ IF current_quiz_data = <<>>
       THEN /\ toast' = "No Quiz Selected"
            /\ mounted' = FALSE
            /\ UNCHANGED << questions, current_quiz_data >>
       ELSE IF Len(validQuestions(current_quiz_data[1])) = 0
       THEN /\ toast' = "Error Loading Quiz"
            /\ current_quiz_data' = <<>>
            /\ mounted' = FALSE
            /\ UNCHANGED questions
       ELSE /\ questions' \in shuffleArray(validQuestions(current_quiz_data[1]))
            /\ toast' = NoToast
            /\ UNCHANGED << mounted, current_quiz_data >>
    /\ UNCHANGED << currentQuestionIndex, selectedAnswers, showResults, quizStarted,
                    timerPaused, quizType, timeLeft, isRunning, pending, saveCalls,
                    lastSel, saving, fileContent, storage, process >>

\* The chapters page is shown, a chapter has a question file, and no quiz
\* has been opened yet.
LoadInit ==
    /\ StorageInit(FALSE)
    /\ ProcessInit
    /\ fileContent \in QuestionFiles
    /\ current_quiz_data = <<>>
    /\ questions = <<>>
    /\ mounted = FALSE
    /\ currentQuestionIndex = 0
    /\ selectedAnswers = <<>>
    /\ showResults = FALSE
    /\ quizStarted = FALSE
    /\ timerPaused = FALSE
    /\ quizType = "normal"
    /\ timeLeft = InitialTime
    /\ isRunning = FALSE
    /\ pending = <<>>
    /\ saveCalls = 0
    /\ lastSel = NoAnswers
    /\ saving = FALSE
    /\ toast = NoToast

LoadNext ==
    \/ startChapterQuiz
    \/ openQuizRoute
    \/ loadQuestionsFromSession

LoadSpec == LoadInit /\ [][LoadNext]_vars

\* ----------------------------------------------------- question import

\* The files chosen in the upload dialogs: arrays of at most MaxImport
\* records, each complete with an option key as correctAnswer, without
\* optionC, or with "" as correctAnswer.
ImportRecords ==
    { fullRecord(<<"A">>),
      [fullRecord(<<"A">>) EXCEPT !.optionC = undefined],
      fullRecord(<<>>) }

ImportFiles ==
    UNION { [1..n -> ImportRecords] : n \in 1..MaxImport }

\* !q.question || !q.optionA || !q.optionB || !q.optionC || !q.optionD || !q.correctAnswer
missesRequiredFields(q) ==
    \/ ~truthy(q.question)
    \/ ~truthy(q.optionA)
    \/ ~truthy(q.optionB)
    \/ ~truthy(q.optionC)
    \/ ~truthy(q.optionD)
    \/ ~truthy(q.correctAnswer)

\* parseJSONFile of the chapters page on the array of a file: questions.map
\* throws at the first record that misses a field, and the catch block
\* keeps the message and no question.
parseJSONFile(data) ==
    IF \E i \in 1..Len(data) : missesRequiredFields(data[i])
    THEN [parsedQuestions |-> << >>, parseError |-> "is missing required fields"]
    ELSE [parsedQuestions |-> data, parseError |-> NoError]

\* item.field?.trim() || ''
trimmedOrEmpty(v) == IF v = undefined THEN << >> ELSE trim(v)

\* item.correctAnswer?.toString().toUpperCase() || 'A'
upperOrA(v) ==
    IF v = undefined \/ toUpperCase(v) = << >> THEN <<"A">> ELSE toUpperCase(v)

\* const question: ParsedQuestion = {...} of parseJSON
parsedQuestion(item) ==
    [question |-> trimmedOrEmpty(item.question),
     optionA |-> trimmedOrEmpty(item.optionA),
     optionB |-> trimmedOrEmpty(item.optionB),
     optionC |-> trimmedOrEmpty(item.optionC),
     optionD |-> trimmedOrEmpty(item.optionD),
     correctAnswer |-> upperOrA(item.correctAnswer)]

\* question.question && question.optionA && ... &&
\* ['A', 'B', 'C', 'D'].includes(question.correctAnswer)
isValidParsedQuestion(question) ==
    /\ question.question # << >>
    /\ question.optionA # << >>
    /\ question.optionB # << >>
    /\ question.optionC # << >>
    /\ question.optionD # << >>
    /\ \E k \in DOMAIN OptionKeys : question.correctAnswer = OptionKeys[k]

\* parseJSON of CSVUploadModal on the array of a file: the records that
\* do not pass are skipped.
parseJSON(questionsArray) ==
    SelectSeq([i \in 1..Len(questionsArray) |-> parsedQuestion(questionsArray[i])],
              isValidParsedQuestion)

\* The upload button of a chapter opens the json upload dialog.
openJsonUpload(chapterId) ==
    /\ ~jsonUploadModal.isOpen
    /\ ~csvUploadModal.isOpen
    /\ chapterId \in listedChapters
    /\ jsonUploadModal' = [JSONUploadClosed EXCEPT !.isOpen = TRUE,
                                                   !.chapterId = chapterId]
    /\ toast' = NoToast
    /\ UNCHANGED << pageButToast, storage, initializationPromise, defaultDataRuns,
                    bookPage, manager, csvUploadModal, uploads >>

\* A file is chosen in the json upload dialog and read: handleFileSelect,
\* then reader.onload of parseJSONFile.
selectJsonFile(data) ==
    /\ jsonUploadModal.isOpen
    /\ jsonUploadModal' =
         [jsonUploadModal EXCEPT !.selectedFile = << data >>,
                                 !.parsedQuestions = parseJSONFile(data).parsedQuestions,
                                 !.parseError = parseJSONFile(data).parseError]
    /\ toast' = NoToast
    /\ UNCHANGED << pageButToast, storage, initializationPromise, defaultDataRuns,
                    bookPage, manager, csvUploadModal, uploads >>

\* The body of handleJsonUpload after its first line: the file made of the
\* parsed questions is saved, the toast raised and the dialog reset.
uploadJsonFile(throws) ==
    /\ uploads < MaxUploads
    /\ uploads' = uploads + 1
    /\ saveJsonFileToNeonWrites(jsonUploadModal.chapterId,
                                Len(jsonUploadModal.parsedQuestions), throws)
    /\ toast' = "Success!"
    /\ jsonUploadModal' = JSONUploadClosed
    /\ UNCHANGED << pageButToast, initializationPromise, defaultDataRuns,
                    bookPage, manager, csvUploadModal >>

\* handleJsonUpload without its first line: the upload runs whatever the
\* parse left.
handleJsonUploadUnguarded(throws) ==
    /\ jsonUploadModal.isOpen
    /\ uploadJsonFile(throws)

\* handleJsonUpload: the upload button of the json upload dialog.  With no
\* parsed question or no file it returns at once.
handleJsonUpload(throws) ==
    /\ jsonUploadModal.isOpen
    /\ IF \/ Len(jsonUploadModal.parsedQuestions) = 0
          \/ jsonUploadModal.selectedFile = << >>
       THEN toast' = NoToast /\ UNCHANGED << pageButToast, storage, process >>
       ELSE uploadJsonFile(throws)

\* The json upload dialog is closed without an upload.
closeJsonUpload ==
    /\ jsonUploadModal.isOpen
    /\ jsonUploadModal' = JSONUploadClosed
    /\ toast' = NoToast
    /\ UNCHANGED << pageButToast, storage, initializationPromise, defaultDataRuns,
                    bookPage, manager, csvUploadModal, uploads >>

\* CSVUploadModal is opened for a chapter.
openCsvUpload(chapterId) ==
    /\ ~jsonUploadModal.isOpen
    /\ ~csvUploadModal.isOpen
    /\ chapterId \in (IF sql THEN DOMAIN db_chapters ELSE DOMAIN idb_chapters)
    /\ csvUploadModal' = [CSVUploadClosed EXCEPT !.isOpen = TRUE,
                                                 !.chapterId = chapterId]
    /\ toast' = NoToast
    /\ UNCHANGED << pageButToast, storage, initializationPromise, defaultDataRuns,
                    bookPage, manager, jsonUploadModal, uploads >>

\* handleFileSelect of CSVUploadModal: the file is read and parsed, and the
\* toast tells how many questions were found.
handleFileSelect(data) ==
    /\ csvUploadModal.isOpen
    /\ csvUploadModal' =
         [csvUploadModal EXCEPT !.selectedFile = << data >>,
                                !.parsedQuestions = parseJSON(data),
                                !.parseError = NoError]
    /\ toast' = "JSON Parsed Successfully"
    /\ UNCHANGED << pageButToast, storage, initializationPromise, defaultDataRuns,
                    bookPage, manager, jsonUploadModal, uploads >>

\* handleUploadQuestions of CSVUploadModal: the batch goes to
\* createBulkQuestions; its success closes the dialog, its failure raises
\* the toast and leaves the dialog open.
handleUploadQuestions(throws, inserted) ==
    /\ uploads < MaxUploads
    /\ uploads' = uploads + 1
    /\ createBulkQuestionsWrites(csvUploadModal.chapterId,
                                 Len(csvUploadModal.parsedQuestions),
                                 throws, inserted)
    /\ IF sql /\ throws # "no"
       THEN toast' = "Upload failed" /\ UNCHANGED csvUploadModal
       ELSE toast' = "Success!" /\ csvUploadModal' = CSVUploadClosed
    /\ UNCHANGED << pageButToast, bookPage, manager, jsonUploadModal >>

\* handleUpload of CSVUploadModal: the upload button does nothing without
\* a parsed question.
handleUpload(throws, inserted) ==
    /\ csvUploadModal.isOpen
    /\ IF Len(csvUploadModal.parsedQuestions) > 0
       THEN handleUploadQuestions(throws, inserted)
       ELSE toast' = NoToast /\ UNCHANGED << pageButToast, storage, process >>

\* handleClose of CSVUploadModal.
handleClose ==
    /\ csvUploadModal.isOpen
    /\ csvUploadModal' = CSVUploadClosed
    /\ toast' = NoToast
    /\ UNCHANGED << pageButToast, storage, initializationPromise, defaultDataRuns,
                    bookPage, manager, jsonUploadModal, uploads >>

\* ------------------------------------------------- the database manager

\* Every collection kept in localStorage or IndexedDB.
localCollections ==
    << neon_books, neon_chapters, neon_book_chapters, neon_json_files,
       idb_subjects, idb_chapters, idb_questions, bg_images, quiz_stats >>

\* handleDownloadDatabase: the backup document is built and downloaded.
handleDownloadDatabase ==
    /\ backup' = << [bg_images |-> bg_images, quiz_stats |-> quiz_stats,
                     timestamp |-> "toISOString"] >>
    /\ exported' = << localCollections >>
    /\ UNCHANGED << page, storage, initializationPromise, defaultDataRuns,
                    bookPage, modals, bg_images, quiz_stats, db_quiz_stats,
                    dmSql, userStats >>

\* if (data.key) localStorage.setItem(key, data.key)
restored(stored, value) == IF value # 0 THEN value ELSE stored

\* handleUploadDatabase on the document downloaded last: the keys of the
\* document that hold a value are written back, then the page is
\* reloaded, which starts the process again.
handleUploadDatabase ==
    /\ backup # << >>
    /\ bg_images' = restored(bg_images, backup[1].bg_images)
    /\ quiz_stats' = restored(quiz_stats, backup[1].quiz_stats)
    /\ initializationPromise' = "null"
    /\ defaultDataRuns' = 0
    /\ tableInitRuns' = 0
    /\ mutations' = << >>
    /\ jsonUploadModal' = JSONUploadClosed
    /\ csvUploadModal' = CSVUploadClosed
    /\ dmSql' = "null"
    /\ userStats' = << >>
    /\ UNCHANGED << page, storage, book_chapters, uploads, db_quiz_stats,
                    backup, exported >>

\* The dynamic import of the database client resolves and its callback
\* assigns the module variable sql.
sqlClientResolves ==
    /\ sql
    /\ dmSql = "null"
    /\ dmSql' = "client"
    /\ UNCHANGED << page, storage, initializationPromise, defaultDataRuns,
                    bookPage, modals, bg_images, quiz_stats, db_quiz_stats,
                    backup, exported, userStats >>

\* getUserStats: with the client the rows of quiz_stats are returned, and
\* the empty list when a statement throws; without it the empty list.
getUserStats(throws) ==
    /\ userStats' = (IF dmSql = "client" /\ ~throws
                     THEN << db_quiz_stats >>
                     ELSE << 0 >>)
    /\ UNCHANGED << page, storage, initializationPromise, defaultDataRuns,
                    bookPage, modals, bg_images, quiz_stats, db_quiz_stats,
                    backup, exported, dmSql >>

\* ----------------------------------------------------- the other pages

\* No quiz is open.
NoQuiz ==
    /\ fileContent = << >>
    /\ current_quiz_data = << >>
    /\ questions = << >>
    /\ mounted = FALSE
    /\ currentQuestionIndex = 0
    /\ selectedAnswers = << >>
    /\ showResults = FALSE
    /\ quizStarted = FALSE
    /\ timerPaused = FALSE
    /\ quizType = "normal"
    /\ timeLeft = InitialTime
    /\ isRunning = FALSE
    /\ pending = << >>
    /\ saveCalls = 0
    /\ lastSel = NoAnswers
    /\ saving = FALSE
    /\ toast = NoToast

\* The pages other than the quiz page, with no quiz open.
StoreInit ==
    /\ \E configured \in BOOLEAN : StorageInit(configured)
    /\ ProcessInit
    /\ NoQuiz

\* Uploads, imports and quiz results on the chapters of the chapters page.
CounterNext ==
    \/ \E c \in ChapterIds, k \in BatchSizes, throws \in Throws :
          saveJsonFileToNeon(c, k, throws)
    \/ \E c \in ChapterIds, k \in BatchSizes, throws \in Throws :
          \E inserted \in 0..(k - 1) : createBulkQuestions(c, k, throws, inserted)
    \/ \E c \in ChapterIds, throws \in Throws : saveQuizResultOfChapter(c, throws)

CounterSpec == StoreInit /\ [][CounterNext]_vars

\* Chapters and books are created, filled with single questions and
\* deleted; the two backends hold MaxFiles question files between them,
\* and a chapter is imported into while it has no question.
CascadeNext ==
    \/ \E c \in AllChapterIds, throws \in Throws :
          /\ Len(db_json_files) + Len(neon_json_files) < MaxFiles
          /\ saveJsonFileToNeon(c, 1, throws)
    \/ \E c \in ChapterIds, throws \in Throws :
          /\ db_questions[c] + idb_questions[c] = 0
          /\ createBulkQuestions(c, 1, throws, 0)
    \/ \E c \in NewChapterIds, throws \in Throws : createNeonChapter(c, throws)
    \/ \E c \in AllChapterIds : deleteNeonChapter(c)
    \/ \E c \in AllChapterIds : deleteChapterFromBook(c)
    \/ \E b \in BookIds : deleteBookWithCascade(b)
    \/ \E b \in BookIds : studyDeleteBookWithCascade(b)
    \/ \E throws \in BOOLEAN : cascadeStep(throws)
    \/ \E c \in ChapterIds : deleteChapter(c)
    \/ \E s \in SubjectIds : deleteSubject(s)

CascadeSpec == StoreInit /\ [][CascadeNext]_vars

\* The book page creates chapters while operations of the IndexedDB layer
\* run.
BookNext ==
    \/ ensureInitialized
    \/ initializeDefaultData
    \/ \E title \in Titles : createChapterMutation(title)
    \/ \E i \in 1..MaxMutations, throws \in BOOLEAN : checkSettles(i, throws)
    \/ \E i \in 1..MaxMutations, chapterId \in generateChapterId, throws \in BOOLEAN :
          createChapterInBook(i, chapterId, throws)

BookSpec == StoreInit /\ [][BookNext]_vars

\* Question files are chosen in the two upload dialogs and uploaded.
ImportNext ==
    \/ \E chapterId \in ChapterIds : openJsonUpload(chapterId)
    \/ \E data \in ImportFiles : selectJsonFile(data)
    \/ \E throws \in Throws : handleJsonUpload(throws)
    \/ closeJsonUpload
    \/ \E chapterId \in ChapterIds : openCsvUpload(chapterId)
    \/ \E data \in ImportFiles : handleFileSelect(data)
    \/ \E throws \in Throws, inserted \in 0..(MaxImport - 1) :
          handleUpload(throws, inserted)
    \/ handleClose

ImportSpec == StoreInit /\ [][ImportNext]_vars

\* The store at the start of a process over what earlier processes left:
\* a background image or none, and rows of quiz results in the table.
ManagerStoreInit ==
    /\ \E configured \in BOOLEAN, images \in 0..1 :
          \E rows \in (IF configured THEN 0..1 ELSE {0}) :
             StorageInit(configured) /\ ManagerInit(images, rows)
    /\ PagesInit
    /\ NoQuiz

\* The database manager is used while question files are uploaded,
\* quizzes are saved and its database client is being set up.
ManagerNext ==
    \/ \E c \in ChapterIds, k \in BatchSizes, throws \in Throws :
          saveJsonFileToNeon(c, k, throws)
    \/ \E c \in ChapterIds, throws \in Throws : saveQuizResultOfChapter(c, throws)
    \/ handleDownloadDatabase
    \/ handleUploadDatabase
    \/ sqlClientResolves
    \/ \E throws \in BOOLEAN : getUserStats(throws)

ManagerSpec == ManagerStoreInit /\ [][ManagerNext]_vars

\* ------------------------------------------------------------- claims

\* A step that constructs a new session on the page.
NewSession == handlePlayAgain \/ handleWrongTry

\* C1: whenever a session is Completed, the result-save operation has been
\* invoked exactly once for it, whichever way it was completed.
C1_SavedExactlyOnce == status = "Completed" => saveCalls = 1

\* C2: a callback scheduled in a superseded session never changes the index,
\* the answers or the status of a later session and never completes it.
C2_StaleCallbackHarmless ==
    [][(AutoAdvance /\ mounted /\ Head(pending).stale) =>
          /\ currentQuestionIndex' = currentQuestionIndex
          /\ selectedAnswers' = selectedAnswers
          /\ showResults' = showResults
          /\ status' = status]_vars

\* C3: once a session is Completed, its status, current index and answers
\* stay as they are until a new session is constructed.
C3_CompletedTerminal ==
    [][(status = "Completed" /\ ~NewSession) =>
          /\ status' = "Completed"
          /\ currentQuestionIndex' = currentQuestionIndex
          /\ selectedAnswers' = selectedAnswers]_vars

\* C4: within a session the status changes only NotStarted -> Running,
\* Running -> Paused, Paused -> Running and Running -> Completed.
C4_ListedTransitionsOnly ==
    [][(status' # status /\ ~NewSession) =>
          << status, status' >> \in { << "NotStarted", "Running" >>,
                                      << "Running", "Paused" >>,
                                      << "Paused", "Running" >>,
                                      << "Running", "Completed" >> }]_vars

\* C5: the auto-advance of an answer given on question i, not the last,
\* leaves the current index at i + 1; the auto-advance of an answer given
\* on the last question completes the session and leaves the index alone.
C5_AdvanceByOne ==
    [][(AutoAdvance /\ mounted) =>
          LET cb == Head(pending)
          IN  IF cb.index < cb.totalQuestions - 1
              THEN currentQuestionIndex' = cb.index + 1
              ELSE currentQuestionIndex' = currentQuestionIndex /\ showResults']_vars

\* C6: the answer map holds at most one entry per question index, an entry
\* exactly for the indexes an answer was selected for, and each entry is
\* the letter of the latest selection made for its index.
C6_OneEntryPerIndex ==
    /\ \A i, j \in 1..Len(selectedAnswers) :
          selectedAnswers[i].key = selectedAnswers[j].key => i = j
    /\ Len(selectedAnswers) =
          Cardinality({ k \in DOMAIN lastSel : lastSel[k] # undefined })
    /\ \A k \in DOMAIN lastSel :
          lastSel[k] # undefined => objGet(selectedAnswers, k) = lastSel[k]

\* C6 witness: the last question was answered twice, with different
\* letters, and the map holds the single entry of the second selection.
C6_Witness ==
    /\ Len(pending) = 2
    /\ ~pending[1].stale /\ ~pending[2].stale
    /\ pending[1].index = pending[2].index
    /\ pending[2].selectedAnswers # <<>>
    /\ objGet(pending[2].selectedAnswers, pending[2].index)
          # objGet(selectedAnswers, pending[2].index)
    /\ Len(selectedAnswers) = 1

\* The question indexes of the current session by what the user did.
AnsweredRight ==
    { i \in 0..(totalQuestions - 1) :
        /\ objHas(selectedAnswers, i)
        /\ toUpperCase(trim(objGet(selectedAnswers, i)))
              = toUpperCase(trim(questions[i + 1].correctAnswer)) }

AnsweredWrong ==
    { i \in 0..(totalQuestions - 1) :
        /\ objHas(selectedAnswers, i)
        /\ toUpperCase(trim(objGet(selectedAnswers, i)))
              # toUpperCase(trim(questions[i + 1].correctAnswer)) }

NotAnswered == { i \in 0..(totalQuestions - 1) : ~objHas(selectedAnswers, i) }

\* C7: calculateResults counts every question as exactly one of correct,
\* incorrect and unanswered, so the three counts add up to the set's size.
C7_ResultPartition ==
    LET r == calculateResults(questions, selectedAnswers)
    IN  /\ r.correct + r.incorrect + r.unanswered = totalQuestions
        /\ r.correct = Cardinality(AnsweredRight)
        /\ r.incorrect = Cardinality(AnsweredWrong)
        /\ r.unanswered = Cardinality(NotAnswered)

\* C7 witness: a session with a wrongly answered and an unanswered question.
C7_Witness ==
    /\ Cardinality(AnsweredWrong) = 1
    /\ Cardinality(NotAnswered) = 1
    /\ status = "Completed"

\* C8: score = 4 * correct - incorrect; unanswered questions add nothing.
C8_NeetScore ==
    LET r == calculateResults(questions, selectedAnswers)
    IN  r.score = 4 * r.correct - r.incorrect

\* C8 witness: one correct and one incorrect answer, score 3.
C8_Witness ==
    LET r == calculateResults(questions, selectedAnswers)
    IN  r.correct = 1 /\ r.incorrect = 1 /\ r.score = 3

\* C9: while a session is Paused the remaining time does not change, and
\* neither the pause nor the resume changes it.
C9_PauseKeepsTime ==
    [][(status = "Paused" \/ handlePauseTimer) => timeLeft' = timeLeft]_vars

\* C9 witness: a session paused in the middle of the countdown.
C9_Witness ==
    status = "Paused" /\ timeLeft > 0 /\ timeLeft < InitialTime

\* C10: the question set handleWrongTry builds consists of exactly the
\* questions answered incorrectly: none unanswered, none answered correctly,
\* none missing, none twice.
C10_WrongOnlyExact ==
    [][handleWrongTry =>
          /\ Len(questions') = Cardinality(AnsweredWrong)
          /\ { questions'[j] : j \in 1..Len(questions') }
                = { questions[i + 1] : i \in AnsweredWrong }]_vars

\* C10 witness: a wrong-only session that holds the second question of a
\* two-question set alone.
C10_Witness ==
    /\ quizType = "wrongOnly"
    /\ Len(questions) = 1
    /\ questions[1].id = 2

\* C11: when the session has zero incorrect answers, handleWrongTry, called
\* on a results screen, raises the "Perfect Score!" toast and constructs no
\* session: the question set, the index, the answers and the status stay as
\* they are; and no step ever leaves the page with an empty question set.
C11_NoWrongAnswersSignal ==
    [][ /\ Len(questions') > 0
        /\ ( /\ WrongTryOnAnyResult
             /\ calculateResults(questions, selectedAnswers).incorrect = 0 )
           => /\ toast' = "Perfect Score!"
              /\ UNCHANGED << questions, currentQuestionIndex, selectedAnswers >>
              /\ status' = status ]_vars

\* C11 witness: the toast was raised on the results screen of a session in
\* which every question was answered and none wrongly.
C11_Witness ==
    /\ toast = "Perfect Score!"
    /\ ResultsScreen
    /\ Len(selectedAnswers) = totalQuestions
    /\ calculateResults(questions, selectedAnswers).incorrect = 0

\* A step in which the session on the page calls handleQuizComplete: its own
\* auto-advance callback on the last question, or the countdown at zero.
CompletesOwnSession ==
    \/ /\ AutoAdvance
       /\ ~Head(pending).stale
       /\ ~(Head(pending).index < Head(pending).totalQuestions - 1)
    \/ /\ Tick
       /\ timeLeft' = 0

\* C14: the step that completes the session shows the results at once,
\* while the save it started has not answered; and when the save settles,
\* with success or with failure, the status and the displayed result stay
\* as they are.
C14_ResultShownWhateverTheSave ==
    [][ /\ CompletesOwnSession
           => /\ saving'
              /\ status' = "Completed"
              /\ UNCHANGED << questions, selectedAnswers >>
        /\ (\E ok \in BOOLEAN : saveQuizResultSettles(ok))
           => /\ status' = status
              /\ calculateResults(questions', selectedAnswers')
                   = calculateResults(questions, selectedAnswers) ]_vars

\* C14 witness: the save of a completed session has failed and the results
\* screen shows the score of its one right answer.
C14_Witness ==
    /\ toast = "Error"
    /\ ResultsScreen
    /\ saveCalls = 1
    /\ calculateResults(questions, selectedAnswers).score = NEET_SCORING_CORRECT

\* correctAnswer names one of the four options, as the quiz compares it.
namesAnOption(answer) ==
    \E k \in 1..Len(OptionKeys) : toUpperCase(trim(answer)) = OptionKeys[k]

\* C12: every question of a loaded question set has its text and its four
\* options, and a correctAnswer among A, B, C, D.
C12_LoadedQuestionsValid ==
    \A i \in 1..Len(questions) :
        /\ isValidQuestion(questions[i])
        /\ namesAnOption(questions[i].correctAnswer)

\* How many times x occurs in the array.
occurrences(array, x) == Cardinality({ i \in 1..Len(array) : array[i] = x })

sameMultiset(a, b) ==
    /\ Len(a) = Len(b)
    /\ \A i \in 1..Len(a) : occurrences(a, a[i]) = occurrences(b, a[i])

\* C13: the array that the start-quiz shuffle stores holds the questions of
\* the file, each as many times as the file does, and the array that the
\* loader's shuffle installs holds the valid questions of the stored array,
\* each as many times as it does.
C13_ShuffleIsPermutation ==
    [][ /\ startChapterQuiz
           => sameMultiset(current_quiz_data'[1], fileContent)
        /\ (loadQuestionsFromSession /\ questions' # <<>>)
           => sameMultiset(questions', validQuestions(current_quiz_data[1])) ]_vars

\* C13 witness: a file of three questions, two of them equal, is on the
\* quiz page in another order than the file has.
C13_Witness ==
    /\ Len(fileContent) = 3
    /\ Len(questions) = 3
    /\ fileContent[1] = fileContent[2]
    /\ fileContent[1] # fileContent[3]
    /\ questions # fileContent

\* completedQuestions of a chapter in the backend the configuration selects.
completedOf(c) ==
    IF sql THEN db_chapters[c].completed_questions
    ELSE neon_chapters[c].completedQuestions

\* C15: a quiz result saved for a chapter, with no statement failing,
\* raises the chapter's completedQuestions by exactly 1.
C15_AttemptCountsOnce ==
    [][ \A c \in ChapterIds :
          saveQuizResultOfChapter(c, "no") => completedOf(c)' = completedOf(c) + 1 ]_vars

\* totalQuestions of a chapter where an import writes it: the row of the
\* remote table, or the IndexedDB chapter.
importedTotal(c) ==
    IF sql THEN db_chapters[c].total_questions
    ELSE idb_chapters[c].totalQuestions

\* C16: an upload of a file of k questions and a bulk import of k questions,
\* with no statement failing, each raise the chapter's totalQuestions by
\* exactly k.
C16_ImportAddsBatchSize ==
    [][ \A c \in ChapterIds, k \in BatchSizes :
          /\ saveJsonFileToNeon(c, k, "no")
               => listedTotalQuestions(c)' = listedTotalQuestions(c) + k
          /\ createBulkQuestions(c, k, "no", 0)
               => importedTotal(c)' = importedTotal(c) + k ]_vars

\* The files of a chapter in a list of files.
filesOf(files, c) == SelectSeq(files, LAMBDA f : f.chapter_id = c)

\* A step that ends the delete of chapter id by deleteNeonChapter or
\* deleteChapterFromBook: the local branch, the last DELETE statement, or
\* the catch block, after which the function returns normally.
chapterDeleteEnds(id) ==
    \/ ~sql /\ (deleteNeonChapter(id) \/ deleteChapterFromBook(id))
    \/ /\ cascade.op \in { "deleteNeonChapter", "deleteChapterFromBook" }
       /\ cascade.id = id
       /\ cascade' = Idle
       /\ \E throws \in BOOLEAN : cascadeStep(throws)

\* C17: when the delete of a chapter ends, no question and no question file
\* of that chapter is left in the remote or the local store, and the
\* questions and files of the other chapters are as before; the same for
\* deleteChapter on IndexedDB.
C17_ChapterDeleteCascades ==
    [][ \A id \in AllChapterIds :
          /\ chapterDeleteEnds(id)
               => /\ filesOf(db_json_files', id) = << >>
                  /\ filesOf(neon_json_files', id) = << >>
                  /\ db_questions'[id] = 0
                  /\ \A c \in AllChapterIds \ {id} :
                        /\ filesOf(db_json_files', c) = filesOf(db_json_files, c)
                        /\ filesOf(neon_json_files', c) = filesOf(neon_json_files, c)
                        /\ db_questions'[c] = db_questions[c]
          /\ deleteChapter(id)
               => /\ idb_questions'[id] = 0
                  /\ \A c \in AllChapterIds \ {id} :
                        idb_questions'[c] = idb_questions[c] ]_vars

\* The chapters a book delete that ends in this step was deleting.
chaptersOfDeletedBook(bookId) ==
    IF sql THEN cascade.ids ELSE localChaptersOfBook(bookId)

\* A step that ends a delete of book bookId with success: the local branch,
\* or the last DELETE statement.
bookDeleteEnds(bookId) ==
    \/ ~sql /\ deleteBookWithCascade(bookId)
    \/ /\ cascade.op \in { "deleteBookWithCascade", "studyDeleteBookWithCascade" }
       /\ cascade.id = bookId
       /\ cascade' = Idle
       /\ cascadeStep(FALSE)

\* C18: when the delete of a book ends with success, no chapter of the book
\* is left, and no question file and no question of the chapters it had;
\* when deleteSubject ends, no chapter of the subject and no question of
\* its chapters is left.
C18_BookDeleteCascades ==
    [][ /\ \A b \in BookIds :
             bookDeleteEnds(b)
               => /\ \A c \in DOMAIN db_chapters' : db_chapters'[c].book_id # b
                  /\ \A c \in DOMAIN neon_book_chapters' :
                        neon_book_chapters'[c].bookId # b
                  /\ \A c \in chaptersOfDeletedBook(b) :
                        /\ filesOf(db_json_files', c) = << >>
                        /\ filesOf(neon_json_files', c) = << >>
                        /\ db_questions'[c] = 0
        /\ \A sub \in SubjectIds :
             deleteSubject(sub)
               => \A c \in AllChapterIds :
                     (c \in DOMAIN idb_chapters /\ idb_chapters[c].subjectId = sub)
                       => c \notin DOMAIN idb_chapters' /\ idb_questions'[c] = 0 ]_vars

\* C19: in the backend the configuration selects, at every moment, every
\* question file and every question belongs to a chapter that exists, and
\* every chapter of a book to a book that exists.
C19_ChildrenBeforeParents ==
    IF sql
    THEN /\ \A i \in 1..Len(db_json_files) :
               db_json_files[i].chapter_id \in DOMAIN db_chapters
         /\ \A c \in AllChapterIds : db_questions[c] > 0 => c \in DOMAIN db_chapters
         /\ \A c \in DOMAIN db_chapters :
               db_chapters[c].book_id \in BookIds => db_chapters[c].book_id \in db_books
    ELSE /\ \A i \in 1..Len(neon_json_files) :
               neon_json_files[i].chapter_id
                 \in (DOMAIN neon_chapters) \cup (DOMAIN neon_book_chapters)
         /\ \A c \in DOMAIN neon_book_chapters :
               neon_book_chapters[c].bookId \in neon_books

\* C20: with a connection configured, no step reads or writes localStorage:
\* its collections stay as they are.
C20_BackendFixedAtStartup ==
    [][ sql => UNCHANGED << neon_books, neon_chapters, neon_book_chapters,
                           neon_json_files >> ]_vars

\* C26: in a started session that is not completed the current index is one
\* of 0..N-1, so questions[currentQuestionIndex] exists.
C26_CurrentQuestionExists ==
    (mounted /\ totalQuestions > 0 /\ quizStarted /\ ~showResults)
        => currentQuestionIndex \in 0..(totalQuestions - 1)

\* The fields of a result that the saved record and the results screen share.
sharedFields(results) ==
    [correct |-> results.correct, incorrect |-> results.incorrect,
     score |-> results.score]

\* C27: when a callback or the countdown completes the session it was
\* created in, the result handed to saveQuizResult has the correct,
\* incorrect and score values of the result the results screen shows.
C27_PersistedIsDisplayed ==
    [][ /\ ( /\ AutoAdvance
             /\ mounted
             /\ ~Head(pending).stale
             /\ ~(Head(pending).index < Head(pending).totalQuestions - 1) )
           => sharedFields(calculateResults(Head(pending).questions,
                                            Head(pending).selectedAnswers))
                = sharedFields(calculateResults(questions', selectedAnswers'))
        /\ (Tick /\ timeLeft' = 0)
           => sharedFields(calculateResults(questions, selectedAnswers))
                = sharedFields(calculateResults(questions', selectedAnswers')) ]_vars

\* C21: the initialization work runs at most once in the life of the
\* process: initializeDefaultData, and the statements of initChaptersTable.
C21_InitializedAtMostOnce ==
    /\ defaultDataRuns <= 1
    /\ tableInitRuns <= 1

\* C24: the ids issued for the chapters of a book rise strictly in the
\* order of issue.
C24_IdsMonotonic ==
    \A i, j \in 1..Len(book_chapters) :
        i < j => book_chapters[i].id < book_chapters[j].id

\* C30: no store holds two chapters of the book whose titles are equal
\* ignoring case.
C30_NoDuplicateTitles ==
    \A i, j \in 1..Len(book_chapters) :
        ( /\ i # j
          /\ book_chapters[i].store = book_chapters[j].store )
            => toLowerCase(book_chapters[i].title) # toLowerCase(book_chapters[j].title)

\* A record with every mandatory field.
hasMandatoryFields(q) ==
    /\ truthy(q.question)
    /\ truthy(q.optionA)
    /\ truthy(q.optionB)
    /\ truthy(q.optionC)
    /\ truthy(q.optionD)
    /\ truthy(q.correctAnswer)

\* A record with every mandatory field and an option key as correctAnswer.
isPlainRecord(q) ==
    hasMandatoryFields(q) /\ \E k \in DOMAIN OptionKeys : q.correctAnswer = OptionKeys[k]

\* Every record of the file is either plainly valid or misses a field.
isClearCut(data) ==
    \A i \in 1..Len(data) : isPlainRecord(data[i]) \/ ~hasMandatoryFields(data[i])

\* The dialog holds exactly the valid records of its file; the count it
\* reports is the length of parsedQuestions.
acceptsTheValid(modal) ==
    (modal.selectedFile # << >> /\ isClearCut(modal.selectedFile[1]))
        => Len(modal.parsedQuestions)
             = Len(SelectSeq(modal.selectedFile[1], hasMandatoryFields))

\* C22: on both import paths, a file in which some records miss a
\* mandatory field is parsed to exactly its valid records, and the count
\* reported is the number of records accepted.
C22_ImportDropsInvalidOnly ==
    acceptsTheValid(jsonUploadModal) /\ acceptsTheValid(csvUploadModal)

\* The dialog shows an import that ended with a validation error: a file
\* was chosen and the parse kept an error or no question.
isAborted(modal) ==
    /\ modal.isOpen
    /\ modal.selectedFile # << >>
    /\ (modal.parseError # NoError \/ modal.parsedQuestions = << >>)

\* Question rows, question files and question totals of both backends.
importedData ==
    << db_json_files, neon_json_files, db_questions, idb_questions,
       db_chapters, idb_chapters, neon_chapters >>

C25_ImportRestoresExport ==
    [][ handleUploadDatabase => << localCollections' >> = exported ]_vars

\* C28: with a connection configured, getUserStats whose statements do not
\* throw returns the rows stored in quiz_stats, whenever it is called.
C28_StatsNeverEmptyByTiming ==
    [][ (sql /\ getUserStats(FALSE)) => userStats' = << db_quiz_stats >> ]_vars

\* C29: after an upload to a chapter that went through, the file a quiz
\* of that chapter is started on is the file just uploaded, on the remote
\* and on the local backend alike.
C29_LatestUploadServed ==
    [][ \A c \in ChapterIds, k \in BatchSizes :
          saveJsonFileToNeon(c, k, "no")
            => /\ getNeonJsonFile(c, FALSE)' # << >>
               /\ getNeonJsonFile(c, FALSE)'[1].question_count = k ]_vars

====
